---- MODULE Spec2Model ----
(***************************************************************************)
(* URL shortener (affordmed): the Url model (src/affordmed/src/models/     *)
(* Url.js), the validators (src/affordmed/src/utils/validators.js), the    *)
(* shortcode generator (src/unnamed/part_004) and the URL service          *)
(* (src/unnamed/part_006); the routes and controllers in front of the      *)
(* service, the authentication middleware (src/unnamed/part_002) and the   *)
(* registration of users (src/affordmed/src/services/authService.js).      *)
(*                                                                         *)
(* Every service method is an async function.  Node runs the code between  *)
(* two awaits without interruption, so each action below is one such       *)
(* segment: the synchronous start of a method up to its first store call,  *)
(* the execution of a store call by MongoDB (atomic per document), or a    *)
(* continuation that reads the clock.  Requests interleave at the awaits.  *)
(*                                                                         *)
(* Strings that the code inspects character by character (shortcodes) are  *)
(* sequences of one-character strings, so that toLowerCase and the         *)
(* format pattern are computed and not assumed.                            *)
(***************************************************************************)
EXTENDS Integers, Sequences, FiniteSets, TLC

VARIABLES
  store,     \* the urls collection of MongoDB, in insertion order
  reqs,      \* the service method invocations, each with its position
  now,       \* the clock, in milliseconds
  last,      \* the invocation that returned last, with what it returned
  served,    \* per stored document, the redirects that returned success
  origin,    \* per stored document, the Create that inserted it
  load,      \* the workload the behaviour draws its requests from
  users      \* the users collection of MongoDB, in insertion order

vars == <<store, reqs, now, last, served, origin, load, users>>

---------------------------------------------------------------------------
(* Bounds of the model *)

\* number of requests (service method invocations) in one behaviour
MaxReq == 2
\* number of one-minute clock steps in one behaviour
MaxTicks == 2

---------------------------------------------------------------------------
(* Program constants *)

\* config.shortener.defaultValidity (minutes)
defaultValidity == 30
\* Joi: validity .min(1) .max(1440)
minValidity == 1
maxValidity == 1440
\* Joi: shortcode .min(3) .max(20)
minShortcodeLength == 3
maxShortcodeLength == 20
\* config.shortener.shortcodeLength
shortcodeLength == 8
\* generateUnique(maxAttempts = 10)
maxAttempts == 10
\* addClickEvent: keep only the last 100 click events
maxClickEvents == 100
\* expiryMinutes * 60 * 1000
MsPerMinute == 60 * 1000

---------------------------------------------------------------------------
(* Characters and strings *)

UpperLetters ==
  <<"A","B","C","D","E","F","G","H","I","J","K","L","M",
    "N","O","P","Q","R","S","T","U","V","W","X","Y","Z">>
LowerLetters ==
  <<"a","b","c","d","e","f","g","h","i","j","k","l","m",
    "n","o","p","q","r","s","t","u","v","w","x","y","z">>
Digits == {"0","1","2","3","4","5","6","7","8","9"}

Range(f) == {f[i] : i \in DOMAIN f}

\* String.prototype.toLowerCase on one character
LowerChar(c) ==
  IF \E i \in DOMAIN UpperLetters : UpperLetters[i] = c
  THEN LowerLetters[CHOOSE i \in DOMAIN UpperLetters : UpperLetters[i] = c]
  ELSE c

\* String.prototype.toLowerCase
toLowerCase(s) == [i \in DOMAIN s |-> LowerChar(s[i])]

\* the character class [a-zA-Z0-9_-]
PatternChar(c) ==
  c \in Range(UpperLetters) \cup Range(LowerLetters) \cup Digits \cup {"_", "-"}

\* Joi.string().pattern(/^[a-zA-Z0-9_-]+$/).min(3).max(20)
shortcodeSchema(s) ==
  /\ Len(s) >= 1
  /\ \A i \in DOMAIN s : PatternChar(s[i])
  /\ Len(s) >= minShortcodeLength
  /\ Len(s) <= maxShortcodeLength

\* config.shortener.reservedShortcodes
reservedShortcodes ==
  { <<"a","p","i">>,
    <<"d","o","c","s">>,
    <<"h","e","a","l","t","h">>,
    <<"a","d","m","i","n">>,
    <<"s","h","o","r","t","u","r","l","s">>,
    <<"a","u","t","h">>,
    <<"r","e","g","i","s","t","e","r">> }

\* isReservedShortcode without the lowercasing of its argument
isReservedShortcode_CaseSensitive(s) == s \in reservedShortcodes

\* isReservedShortcode: reservedShortcodes.includes(shortcode.toLowerCase())
isReservedShortcode(s) == toLowerCase(s) \in reservedShortcodes

---------------------------------------------------------------------------
(* Inputs *)

NoCode == <<>>
\* validity absent from the request body
NoValidity == 0 - 1
NoHeader == "none"

NoUrl == [protocol |-> "", pathname |-> <<>>, slash |-> FALSE]
NoContext == [ip |-> "", referer |-> NoHeader, userAgent |-> NoHeader]

\* URLs, as new URL(url) splits them
UrlA == [protocol |-> "https:", pathname |-> <<"a">>, slash |-> FALSE]
UrlB == [protocol |-> "http:", pathname |-> <<"b">>, slash |-> TRUE]
UrlFtp == [protocol |-> "ftp:", pathname |-> <<"a">>, slash |-> FALSE]

\* shortcodes that callers send, as custom code or as path parameter
CodeLower == <<"a","b","c">>
CodeMixed == <<"A","b","C">>
CodeReserved == <<"H","e","a","l","t","h">>
CodeShort == <<"a","b">>
CodeBadChar == <<"a","!","c">>
CodeOther == <<"x","y","z">>
CodeLong == <<"a","b","c","d","e","f","g","h","i","j","k","l","m","n","o","p","q","r","s","t","u">>

\* outputs of nanoid(8)
CodeGen == <<"K","7","_","x","-","Q","2","m">>
CodeGenReserved == <<"r","e","g","i","s","t","e","r">>
CodeGenCaps == <<"k","7","_","X","-","q","2","M">>

\* what the Express request of a redirect carries
Local == [ip |-> "127.0.0.1", referer |-> NoHeader, userAgent |-> NoHeader]
Remote == [ip |-> "8.8.8.8", referer |-> "https://google.com", userAgent |-> "curl"]

\* a JSON Web Token: whether jwt.verify accepts its signature, issuer and
\* audience, the clock at which it expires, and the clientID of its payload
Token(signed, exp, clientID) == [signed |-> signed, exp |-> exp, clientID |-> clientID]

\* null, where a token or a decoded payload is expected
NoToken == Token(FALSE, 0, "")

\* tokens of the user with clientID "client-a": one that generateToken
\* issued, valid for 24 hours, one that has expired and one that is forged
TokenA == Token(TRUE, 24 * 60 * MsPerMinute, "client-a")
TokenExpired == Token(TRUE, 0, "client-a")
TokenForged == Token(FALSE, 24 * 60 * MsPerMinute, "client-a")
\* the token of the user with clientID "client-b"
TokenB == Token(TRUE, 24 * 60 * MsPerMinute, "client-b")
\* a token issued to a user the collection does not hold
TokenGone == Token(TRUE, 24 * 60 * MsPerMinute, "client-z")

\* Authorization headers, as authHeader.split(' ') splits them; NoAuthorization
\* is the header that is absent
NoAuthorization == <<>>
Bearer(token) == <<"Bearer", token>>
Basic(token) == <<"Basic", token>>

\* a user document
User(email, rollNo, clientID, isRegistered) ==
  [email |-> email, rollNo |-> rollNo, clientID |-> clientID,
   isRegistered |-> isRegistered]

\* the user registerUser has stored for client-a
UserA == User(<<"a","@","x",".","i","o">>, <<"2","2","p","a">>, "client-a", TRUE)

\* a user document with the default of isRegistered, false
UserB == User(<<"b","@","x",".","i","o">>, <<"2","2","p","b">>, "client-b", FALSE)

\* the body of POST /auth/register: the fields registerUser compares
Registration(email, rollNo) == [email |-> email, rollNo |-> rollNo]

\* the registration of UserA, one with its email in capitals, one with its
\* roll number followed by a space, one of another user, and one whose
\* email is none
RegA == Registration(<<"a","@","x",".","i","o">>, <<"2","2","p","a">>)
RegACaps == Registration(<<"A","@","X",".","i","o">>, <<"2","2","p","c">>)
RegARoll == Registration(<<"c","@","x",".","i","o">>, <<"2","2","p","a"," ">>)
RegD == Registration(<<"d","@","x",".","i","o">>, <<"2","2","p","d">>)
RegNoEmail == Registration(<<"a","x",".","i","o">>, <<"2","2","p","e">>)

\* the clientIDs uuidv4 gives, one per request
NewClientIDs == <<"client-1", "client-2", "client-3", "client-4">>

\* the body of POST /shorturls
Body(url, validity, shortcode) ==
  [url |-> url, validity |-> validity, shortcode |-> shortcode]

---------------------------------------------------------------------------
(* Validators (src/affordmed/src/utils/validators.js) *)

\* a urlSchema that takes a URI of any scheme
validateUrlRequest_AnyScheme(url, validity, shortcode) ==
  /\ validity # NoValidity => (validity >= minValidity /\ validity <= maxValidity)
  /\ shortcode # NoCode => shortcodeSchema(shortcode)

\* a urlSchema without the rule of validity
validateUrlRequest_AnyValidity(url, validity, shortcode) ==
  /\ url.protocol \in {"http:", "https:"}
  /\ shortcode # NoCode => shortcodeSchema(shortcode)

\* Joi urlSchema: url is an http/https URI, validity an integer in [1,1440]
\* (optional), shortcode matches the shortcode rule (optional)
validateUrlRequest(url, validity, shortcode) ==
  /\ url.protocol \in {"http:", "https:"}
  /\ validity # NoValidity => (validity >= minValidity /\ validity <= maxValidity)
  /\ shortcode # NoCode => shortcodeSchema(shortcode)

\* the value Joi returns for validity: .optional().default(30)
validityValue(validity) == IF validity = NoValidity THEN defaultValidity ELSE validity

\* a validateShortcode that takes every code as valid
validateShortcode_Any(shortcode) == TRUE

\* validateShortcode: isValid; the returned shortcode is the value unchanged
validateShortcode(shortcode) == shortcodeSchema(shortcode)

\* sanitizeUrl: drop the trailing slash of a non-root pathname
sanitizeUrl(url) ==
  IF url.pathname = <<>>
  THEN [url EXCEPT !.slash = TRUE]
  ELSE [url EXCEPT !.slash = FALSE]

---------------------------------------------------------------------------
(* The Url model (src/affordmed/src/models/Url.js) and MongoDB *)

\* A stored document.  v is Mongoose's version key __v.
NoEvents == <<>>

\* A document in memory: the stored fields, its _id (the position in the
\* collection, 0 for none), the paths modified since it was loaded and the
\* elements pushed on clickEvents since it was loaded.
NoDoc ==
  [id |-> 0, shortcode |-> NoCode, originalUrl |-> NoUrl, createdAt |-> 0,
   expiresAt |-> 0, isActive |-> FALSE, clickCount |-> 0,
   clickEvents |-> NoEvents, v |-> 0, modified |-> {}, pushed |-> NoEvents]

\* the ids of a collection
Ids(st) == DOMAIN st

\* a stored document loaded into memory
Load(st, id) ==
  [id |-> id, shortcode |-> st[id].shortcode, originalUrl |-> st[id].originalUrl,
   createdAt |-> st[id].createdAt, expiresAt |-> st[id].expiresAt,
   isActive |-> st[id].isActive, clickCount |-> st[id].clickCount,
   clickEvents |-> st[id].clickEvents, v |-> st[id].v,
   modified |-> {}, pushed |-> NoEvents]

\* findOne(filter): the first document, in natural order, that matches
FirstOf(S) == IF S = {} THEN 0 ELSE CHOOSE i \in S : \A j \in S : i <= j

\* new Url({shortcode, originalUrl, expiresAt, clickCount: 0, clickEvents: []})
\* with the schema defaults createdAt: Date.now and isActive: true
NewUrl(shortcode, originalUrl, expiresAt, date) ==
  [id |-> 0, shortcode |-> shortcode, originalUrl |-> originalUrl,
   createdAt |-> date, expiresAt |-> expiresAt, isActive |-> TRUE,
   clickCount |-> 0, clickEvents |-> NoEvents, v |-> 0,
   modified |-> {}, pushed |-> NoEvents]

\* an isExpired that never holds
isExpired_Never(doc, date) == FALSE

\* virtual isExpired: this.expiresAt < new Date()
isExpired(doc, date) == doc.expiresAt < date

\* virtual shortLink: baseUrl + "/" + this.shortcode; the part after baseUrl/
shortLink(doc) == doc.shortcode

\* preSave without the lowercasing
preSave_NoLowercase(doc) == doc

\* pre('save'): this.shortcode = this.shortcode.toLowerCase()
preSave(doc) == [doc EXCEPT !.shortcode = toLowerCase(doc.shortcode)]

\* findByShortcode without the isActive condition
findByShortcode_IgnoreActive(st, shortcode, date) ==
  FirstOf({i \in Ids(st) : /\ st[i].shortcode = toLowerCase(shortcode)
                           /\ st[i].expiresAt > date})

\* findByShortcode without the lowercasing of its argument
findByShortcode_CaseSensitive(st, shortcode, date) ==
  FirstOf({i \in Ids(st) : /\ st[i].shortcode = shortcode
                           /\ st[i].isActive = TRUE
                           /\ st[i].expiresAt > date})

\* statics.findByShortcode, the query evaluated with the Date built by the caller
findByShortcode(st, shortcode, date) ==
  FirstOf({i \in Ids(st) : /\ st[i].shortcode = toLowerCase(shortcode)
                           /\ st[i].isActive = TRUE
                           /\ st[i].expiresAt > date})

\* a shortcodeExists that finds no document
shortcodeExists_Never(st, shortcode) == FALSE

\* shortcodeExists without the lowercasing of its argument
shortcodeExists_CaseSensitive(st, shortcode) ==
  \E i \in Ids(st) : st[i].shortcode = shortcode

\* statics.shortcodeExists
shortcodeExists(st, shortcode) ==
  \E i \in Ids(st) : st[i].shortcode = toLowerCase(shortcode)

\* a getExpiredUrls that takes expiresAt equal to the Date as expired
getExpiredUrls_Inclusive(st, date) ==
  {i \in Ids(st) : st[i].expiresAt <= date /\ st[i].isActive = TRUE}

\* a getExpiredUrls without the isActive condition
getExpiredUrls_IgnoreActive(st, date) ==
  {i \in Ids(st) : st[i].expiresAt < date}

\* statics.getExpiredUrls: the ids of the matching documents
getExpiredUrls(st, date) ==
  {i \in Ids(st) : st[i].expiresAt < date /\ st[i].isActive = TRUE}

\* a findOne that matches active documents only
findOneByShortcode_ActiveOnly(st, shortcode) ==
  FirstOf({i \in Ids(st) : st[i].shortcode = shortcode /\ st[i].isActive = TRUE})

\* Url.findOne({ shortcode }) as deleteUrl calls it
findOneByShortcode(st, shortcode) ==
  FirstOf({i \in Ids(st) : st[i].shortcode = shortcode})

\* a collection without the unique index
DuplicateKey_NoUniqueIndex(st, doc) == FALSE

\* the unique index on shortcode: an insert of a duplicate key fails (E11000)
DuplicateKey(st, doc) == \E i \in Ids(st) : st[i].shortcode = doc.shortcode

\* the stored form of a new document
Stored(doc) ==
  [shortcode |-> doc.shortcode, originalUrl |-> doc.originalUrl,
   createdAt |-> doc.createdAt, expiresAt |-> doc.expiresAt,
   isActive |-> doc.isActive, clickCount |-> doc.clickCount,
   clickEvents |-> doc.clickEvents, v |-> doc.v]

\* save() of a new document: insertOne
insertDoc(st, doc) == Append(st, Stored(doc))

\* an addClickEvent that keeps the oldest 100 events
addClickEvent_KeepOldest(doc, clickData) ==
  LET pushed == Append(doc.clickEvents, clickData)
      n == Len(pushed)
  IN IF n > maxClickEvents
     THEN [doc EXCEPT !.clickCount = @ + 1,
                      !.clickEvents = SubSeq(pushed, 1, maxClickEvents),
                      !.modified = @ \cup {"clickCount", "clickEvents"},
                      !.pushed = NoEvents]
     ELSE [doc EXCEPT !.clickCount = @ + 1,
                      !.clickEvents = pushed,
                      !.modified = @ \cup {"clickCount"},
                      !.pushed = Append(@, clickData)]

\* methods.addClickEvent, up to its save(): the document in memory
addClickEvent(doc, clickData) ==
  LET pushed == Append(doc.clickEvents, clickData)
      n == Len(pushed)
  IN IF n > maxClickEvents
     THEN [doc EXCEPT !.clickCount = @ + 1,
                      !.clickEvents = SubSeq(pushed, n - maxClickEvents + 1, n),
                      !.modified = @ \cup {"clickCount", "clickEvents"},
                      !.pushed = NoEvents]
     ELSE [doc EXCEPT !.clickCount = @ + 1,
                      !.clickEvents = pushed,
                      !.modified = @ \cup {"clickCount"},
                      !.pushed = Append(@, clickData)]

\* a deactivate that also clears the click statistics
deactivate_Clear(doc) ==
  [doc EXCEPT !.isActive = FALSE, !.clickCount = 0,
              !.modified = @ \cup {"isActive", "clickCount"}]

\* a deactivate that also moves expiresAt back to createdAt
deactivate_Expire(doc) ==
  [doc EXCEPT !.isActive = FALSE, !.expiresAt = doc.createdAt,
              !.modified = @ \cup {"isActive", "expiresAt"}]

\* methods.deactivate, up to its save(): assigning the value a path already
\* has does not mark it modified
deactivate(doc) ==
  IF doc.isActive = FALSE THEN doc
  ELSE [doc EXCEPT !.isActive = FALSE, !.modified = @ \cup {"isActive"}]

\* save() of a loaded document whose clickEvents array was assigned as a
\* whole carries the version loaded in its filter and fails (VersionError)
\* when the stored version differs
VersionError(st, doc) ==
  "clickEvents" \in doc.modified /\ st[doc.id].v # doc.v

\* a save() that writes the whole document in memory over the stored one
saveDoc_Replace(st, doc) ==
  [st EXCEPT ![doc.id] =
     [@ EXCEPT !.isActive = doc.isActive,
               !.clickCount = doc.clickCount,
               !.clickEvents = doc.clickEvents]]

\* save() of a loaded document: updateOne({_id}) with $set of the modified
\* paths and $push of the pushed elements; an array change increments __v
saveDoc(st, doc) ==
  [st EXCEPT ![doc.id] =
     [@ EXCEPT
        !.shortcode = IF "shortcode" \in doc.modified THEN doc.shortcode ELSE @,
        !.originalUrl = IF "originalUrl" \in doc.modified THEN doc.originalUrl ELSE @,
        !.createdAt = IF "createdAt" \in doc.modified THEN doc.createdAt ELSE @,
        !.expiresAt = IF "expiresAt" \in doc.modified THEN doc.expiresAt ELSE @,
        !.isActive = IF "isActive" \in doc.modified THEN doc.isActive ELSE @,
        !.clickCount = IF "clickCount" \in doc.modified THEN doc.clickCount ELSE @,
        !.clickEvents = IF "clickEvents" \in doc.modified THEN doc.clickEvents
                        ELSE @ \o doc.pushed,
        !.v = IF "clickEvents" \in doc.modified \/ doc.pushed # NoEvents
              THEN @ + 1 ELSE @]]

\* the location getLocation returns when it has no data (geoIp.js)
Unknown(ip) == [country |-> "Unknown", region |-> "Unknown", city |-> "Unknown", ip |-> ip]

\* the click event of redirectToUrl, lines 214-220 of src/unnamed/part_006
ClickEvent(date, ctx, geoLocation) ==
  [timestamp |-> date,
   referrer |-> IF ctx.referer = NoHeader THEN "Direct" ELSE ctx.referer,
   geoLocation |-> geoLocation,
   userAgent |-> ctx.userAgent]

---------------------------------------------------------------------------
(* Workloads *)

\* the document a Create of body leaves in the collection when it runs
\* alone at clock 0
Created(body) ==
  Stored(preSave(NewUrl(body.shortcode, sanitizeUrl(body.url),
                        validityValue(body.validity) * MsPerMinute, 0)))

\* that document after a Delete
Deleted(body) == [Created(body) EXCEPT !.isActive = FALSE]

\* a stored document without clicks after k Redirects from a private
\* address, one after the other, the j-th at clock j, k below the bound of
\* the history: each save() has $set clickCount and pushed one event
Clicked(stored, k) ==
  [stored EXCEPT
     !.clickCount = k,
     !.clickEvents = [j \in 1..k |-> ClickEvent(j, Local, Unknown(Local.ip))],
     !.v = k]

\* the clock when the service is first observed: that of the latest click
\* of the collection, 0 when there is none
StartClock(st) ==
  LET times == {0} \cup UNION {{st[i].clickEvents[k].timestamp :
                                    k \in 1..Len(st[i].clickEvents)} : i \in Ids(st)}
  IN CHOOSE t \in times : \A u \in times : u <= t

\* A workload: the collections the service may find when it starts, the
\* requests that the callers of one behaviour send, the outputs nanoid
\* gives in it, and the minutes it may last.  Each behaviour draws from one
\* workload.
Workload(stores, creates, stats, redirects, deletes, sweeps, nanoid, minutes) ==
  [stores |-> stores, creates |-> creates, stats |-> stats, redirects |-> redirects,
   deletes |-> deletes, sweeps |-> sweeps, nanoid |-> nanoid, minutes |-> minutes,
   users |-> <<>>, headers |-> {}, registrations |-> {}]

\* A workload whose callers send their requests over HTTP, each with one of
\* the Authorization headers, to a service whose users collection is users;
\* the callers of the other workloads call the methods of the service, as
\* its tests do.
Http(workload, registered, headers) ==
  [workload EXCEPT !.users = registered, !.headers = headers]

\* redirects and statistics of one link that expires after a minute
ClickLoad ==
  Workload({<<Created(Body(UrlA, 1, CodeLower))>>},
           {}, {CodeMixed}, {<<CodeLower, Local>>},
           {}, FALSE, {}, maxValidity)

\* redirects from a public address, within one minute
GeoLoad ==
  Workload({<<Created(Body(UrlA, 1, CodeLower))>>},
           {}, {}, {<<CodeLower, Remote>>}, {}, FALSE, {}, 0)

\* custom codes that differ in case only, reserved codes, deletion
CustomLoad ==
  Workload({<<>>, <<Created(Body(UrlA, 1, CodeLower))>>},
           {Body(UrlA, 1, CodeLower), Body(UrlB, NoValidity, CodeMixed),
            Body(UrlA, NoValidity, CodeReserved)},
           {}, {}, {CodeLower}, FALSE, {}, maxValidity)

\* deletion and the sweeper against lookups
LifecycleLoad ==
  Workload({<<Created(Body(UrlB, 1, CodeMixed))>>, <<Deleted(Body(UrlB, 1, CodeMixed))>>},
           {}, {CodeLower}, {<<CodeMixed, Local>>},
           {CodeLower, CodeMixed}, TRUE, {}, maxValidity)

\* sweeps of a collection of three documents, the second deactivated, the
\* third valid for half an hour
SweepLoad ==
  Workload({<<Created(Body(UrlB, 1, CodeMixed)), Deleted(Body(UrlA, 1, CodeGen)),
              Created(Body(UrlA, NoValidity, CodeOther))>>},
           {}, {}, {}, {}, TRUE, {}, maxValidity)

\* generated codes, within one minute
GeneratedLoad ==
  Workload({<<>>}, {Body(UrlA, NoValidity, NoCode)}, {}, {}, {}, FALSE,
           {CodeGen, CodeGenCaps, CodeGenReserved}, 0)

\* requests that fail validation, within one minute
InvalidLoad ==
  Workload({<<Created(Body(UrlA, 1, CodeLower))>>},
           {Body(UrlFtp, 1, NoCode), Body(UrlA, 0, NoCode), Body(UrlA, 0 - 5, NoCode),
            Body(UrlA, maxValidity + 1, CodeLower), Body(UrlA, 1, CodeShort)},
           {CodeBadChar, CodeLong}, {<<CodeShort, Local>>}, {CodeBadChar}, FALSE, {}, 0)

\* redirects of a link whose history is one click short of its bound,
\* within one minute
HistoryLoad ==
  Workload({<<Clicked(Created(Body(UrlA, NoValidity, CodeLower)), maxClickEvents - 1)>>},
           {}, {}, {<<CodeMixed, Local>>}, {}, FALSE, {}, 0)

\* A workload whose callers register, over HTTP, with a service whose users
\* collection is registered
Registering(workload, registered, registrations) ==
  [workload EXCEPT !.users = registered, !.registrations = registrations]

\* registrations of users old and new, within one minute
RegisterLoad ==
  Registering(Workload({<<>>}, {}, {}, {}, {}, FALSE, {}, 0), <<UserA>>,
              {RegA, RegACaps, RegARoll, RegD, RegNoEmail})

\* requests over HTTP with and without a token of a registered user,
\* within one minute
AuthLoad ==
  Http(Workload({<<Created(Body(UrlA, 1, CodeLower))>>},
                {Body(UrlB, NoValidity, CodeOther)}, {CodeLower},
                {<<CodeLower, Local>>}, {CodeLower}, FALSE, {}, 0),
       <<UserA, UserB>>,
       {NoAuthorization, Basic(TokenA), Bearer(TokenForged), Bearer(TokenExpired),
        Bearer(TokenGone), Bearer(TokenB), Bearer(TokenA)})

\* a link created with a custom code in capitals and redirects to it, within
\* its minute of validity
RoundTripLoad ==
  Workload({<<>>}, {Body(UrlB, 1, CodeMixed)}, {}, {<<CodeLower, Local>>},
           {}, FALSE, {}, 1)

Workloads ==
  {ClickLoad, GeoLoad, CustomLoad, LifecycleLoad, SweepLoad, GeneratedLoad,
   InvalidLoad, HistoryLoad, AuthLoad, RegisterLoad, RoundTripLoad}

---------------------------------------------------------------------------
(* Requests *)

Reqs == 1..MaxReq

NoData ==
  [shortLink |-> NoCode, expiry |-> 0, originalUrl |-> NoUrl, totalClicks |-> 0,
   createdAt |-> 0, clickEvents |-> NoEvents, cleaned |-> 0]

NoResult == [success |-> FALSE, error |-> "", statusCode |-> 0, data |-> NoData]

\* { success: false, error, statusCode }
Failure(error, statusCode) ==
  [success |-> FALSE, error |-> error, statusCode |-> statusCode, data |-> NoData]

\* { success: true, data }
Success(data) == [success |-> TRUE, error |-> "", statusCode |-> 0, data |-> data]

\* no document is stored under the code
NotSeen ==
  [exists |-> FALSE, isActive |-> FALSE, past |-> FALSE, future |-> FALSE, live |-> FALSE,
   failed |-> FALSE]

\* request q after one of its store calls has failed
Faulted(q) == [q EXCEPT !.seen.failed = TRUE]

\* no sweep has begun
NotBegun == [store |-> <<>>, date |-> 0, alone |-> FALSE, again |-> FALSE]

\* the routes of urlRoutes with the middleware authenticate and
\* requireRegistration, each named by the method of the service it leads to
Protected == {"create", "stats", "delete"}

\* A request that has not been made.  route and header are the route and
\* the Authorization header of a request made over HTTP, clientID the
\* clientID of its decoded token.  seen records what was stored under
\* the lowercased code when MongoDB ran the request's lookup: whether a
\* document existed, its isActive, whether its expiresAt was before (past)
\* or after (future) the clock of that moment, and whether it was after the
\* Date the request built when it called the lookup (live); failed records
\* that one of the request's store calls failed.
\* began records how a sweep began: the Date it called getExpiredUrls
\* with, whether every other request had returned by then (alone) and, if
\* so, the collection of that moment, and whether it began alone right
\* after a sweep that had returned its count and had begun at the same clock
\* (again).
IdleReq ==
  [pc |-> "idle", op |-> "", shortcode |-> NoCode, url |-> NoUrl,
   validity |-> NoValidity, ctx |-> NoContext, date |-> 0, doc |-> NoDoc,
   attempt |-> 0, pending |-> <<>>, cleaned |-> 0, seen |-> NotSeen,
   began |-> NotBegun, route |-> "", header |-> NoAuthorization, clientID |-> "",
   email |-> <<>>, rollNo |-> <<>>, generated |-> NoCode]

\* a request that has returned
DoneReq == [IdleReq EXCEPT !.pc = "done"]

\* n counts the requests that have returned; status is the status of the
\* HTTP response
NoLast ==
  [n |-> 0, op |-> "", shortcode |-> NoCode, url |-> NoUrl, validity |-> NoValidity,
   seen |-> NotSeen, id |-> 0, began |-> NotBegun, result |-> NoResult,
   route |-> "", header |-> NoAuthorization, status |-> 0,
   email |-> <<>>, rollNo |-> <<>>]

\* result.statusCode || status
StatusOr(result, status) ==
  IF result.statusCode # 0 THEN result.statusCode ELSE status

\* The status of the response of the handlers of UrlController
\* (src/affordmed/src/controllers/urlController.js) for the result of the
\* service method; res.json answers 200, res.redirect 302; the sweep has no
\* response.
UrlController(op, result) ==
  CASE op = "create" -> IF result.success THEN 201 ELSE 400
    [] op = "stats" -> IF result.success THEN 200 ELSE StatusOr(result, 400)
    [] op = "redirect" -> IF result.success THEN 302 ELSE StatusOr(result, 400)
    [] op = "delete" -> IF result.success THEN 200 ELSE 404
    [] OTHER -> 0

\* AuthController.register (src/affordmed/src/controllers/authController.js)
AuthController(result) ==
  IF result.success THEN 201 ELSE StatusOr(result, 400)

\* the status of the response to a request that returns from method op of
\* a service, or, op being none, from the middleware authenticate and
\* requireRegistration
Status(op, result) ==
  CASE op = "register" -> AuthController(result)
    [] op = "" -> StatusOr(result, 401)
    [] OTHER -> UrlController(op, result)

\* the document stored under the lowercased code, whatever its state
StoredUnder(st, shortcode, clock, date) ==
  LET i == FirstOf({j \in Ids(st) : st[j].shortcode = toLowerCase(shortcode)})
  IN IF i = 0 THEN NotSeen
     ELSE [exists |-> TRUE, isActive |-> st[i].isActive,
           past |-> st[i].expiresAt < clock, future |-> st[i].expiresAt > clock,
           live |-> st[i].expiresAt > date, failed |-> FALSE]

\* requests arrive in the order of their numbers
CanStart(r) ==
  /\ reqs[r].pc = "idle"
  /\ r > 1 => reqs[r - 1].pc # "idle"

\* request r goes on as q
Goes(r, q) ==
  /\ reqs' = [reqs EXCEPT ![r] = q]
  /\ UNCHANGED last

\* request r, being q, returns result
Returns(r, q, result) ==
  /\ reqs' = [reqs EXCEPT ![r] = DoneReq]
  /\ last' = [n |-> last.n + 1, op |-> q.op, shortcode |-> q.shortcode, url |-> q.url,
              validity |-> q.validity, seen |-> q.seen, id |-> q.doc.id,
              began |-> [q.began EXCEPT !.store = <<>>], result |-> result,
              route |-> q.route, header |-> q.header,
              status |-> Status(q.op, result),
              email |-> q.email, rollNo |-> q.rollNo]

Init ==
  /\ load \in Workloads
  /\ store \in load.stores
  /\ served = [i \in DOMAIN store |-> store[i].clickCount]
  /\ origin = [i \in DOMAIN store |->
                 [shortcode |-> store[i].shortcode, url |-> store[i].originalUrl,
                  expiry |-> store[i].expiresAt]]
  /\ reqs = [r \in Reqs |-> IdleReq]
  /\ now = StartClock(store)
  /\ last = NoLast
  /\ users = load.users

\* the clock advances
Tick ==
  /\ now < MaxTicks * MsPerMinute
  /\ now < load.minutes * MsPerMinute
  /\ now' = now + MsPerMinute
  /\ UNCHANGED <<store, served, origin, reqs, last, load, users>>

---------------------------------------------------------------------------
(* The routes of the service (urlRoutes) and the authentication middleware *)
(* (src/unnamed/part_002, src/unnamed/part_003, authService.js)            *)

\* extractTokenFromHeader: the second of two parts of which the first is
\* 'Bearer', null otherwise
extractTokenFromHeader(authHeader) ==
  IF authHeader = NoAuthorization THEN NoToken
  ELSE IF Len(authHeader) # 2 \/ authHeader[1] # "Bearer" THEN NoToken
  ELSE authHeader[2]

\* a verifyToken that decodes the token without verifying it
verifyToken_Unverified(token, date) == token.clientID

\* verifyToken: the payload jwt.verify returns, null when it throws; the
\* clientID of the payload stands for it
verifyToken(token, date) ==
  IF token.signed /\ date < token.exp THEN token.clientID ELSE ""

\* statics.findByClientID of the User model: the _id of the document, 0 for none
findByClientID(us, clientID) ==
  FirstOf({i \in DOMAIN us : us[i].clientID = clientID})

\* requireRegistration, lines 85-91: whether it rejects the user
requireRegistration(user) == ~user.isRegistered

\* authenticate, lines 13-28, and verifyTokenAndGetUser up to its store
\* call: a request of a protected route arrives
Authenticate(r, route, authHeader) ==
  /\ CanStart(r)
  /\ route \in Protected
  /\ LET q == [reqs[r] EXCEPT !.route = route, !.header = authHeader]
         token == extractTokenFromHeader(authHeader)
         decoded == verifyToken(token, now)
     IN IF token = NoToken
        THEN Returns(r, q, Failure("Access token required", 401))
        ELSE IF decoded = ""
        THEN Returns(r, q, Failure("Invalid token", 401))
        ELSE Goes(r, [q EXCEPT !.pc = "findByClientID", !.clientID = decoded])
  /\ UNCHANGED <<store, served, origin, now, load, users>>

\* MongoDB runs findByClientID; verifyTokenAndGetUser lines 274-293, then
\* authenticate lines 30-39 and requireRegistration; next() hands the request
\* to the handler of the route
GetUser(r) ==
  /\ reqs[r].pc = "findByClientID"
  /\ LET id == findByClientID(users, reqs[r].clientID)
     IN \/ IF id = 0
           THEN Returns(r, reqs[r], Failure("User not found", 401))
           ELSE IF requireRegistration(users[id])
           THEN Returns(r, reqs[r], Failure("User not registered", 403))
           ELSE Goes(r, [reqs[r] EXCEPT !.pc = "next"])
        \/ Returns(r, Faulted(reqs[r]), Failure("Token verification failed", 0))
  /\ UNCHANGED <<store, served, origin, now, load, users>>

\* the String setters of userSchema: lowercase and trim for email, trim
\* for rollNo
RECURSIVE trim(_)
trim(s) ==
  IF s = <<>> THEN s
  ELSE IF Head(s) = " " THEN trim(Tail(s))
  ELSE IF s[Len(s)] = " " THEN trim(SubSeq(s, 1, Len(s) - 1))
  ELSE s

\* Joi registrationSchema, of the fields registerUser compares: email is an
\* address, one '@' with characters before it and a domain with a '.' after
\* it, without spaces; rollNo has at least one character
validateRegistration(data) ==
  /\ Cardinality({i \in DOMAIN data.email : data.email[i] = "@"}) = 1
  /\ data.email[1] # "@"
  /\ \E i \in DOMAIN data.email : \E j \in DOMAIN data.email :
       data.email[i] = "@" /\ data.email[j] = "." /\ j > i + 1 /\ j < Len(data.email)
  /\ \A i \in DOMAIN data.email : data.email[i] # " "
  /\ Len(data.rollNo) >= 1

\* statics.isUserRegistered: exists({ email: email.toLowerCase(), isRegistered: true })
isUserRegistered(us, email) ==
  \E i \in DOMAIN us : us[i].email = trim(toLowerCase(email)) /\ us[i].isRegistered

\* statics.findByRollNo: the query casts rollNo with the setter of the path
findByRollNo(us, rollNo) ==
  FirstOf({i \in DOMAIN us : us[i].rollNo = trim(rollNo)})

\* the document new User({...}) builds, its strings set by the setters
NewUser(email, rollNo, clientID) ==
  User(trim(toLowerCase(email)), trim(rollNo), clientID, TRUE)

\* a users collection without unique indexes
DuplicateUserKey_NoUniqueIndex(us, user) == ""

\* the unique indexes on email, rollNo and clientID: the field of the key
\* an insert duplicates (error.keyPattern), "" when there is none
DuplicateUserKey(us, user) ==
  IF \E i \in DOMAIN us : us[i].email = user.email THEN "email"
  ELSE IF \E i \in DOMAIN us : us[i].rollNo = user.rollNo THEN "rollNo"
  ELSE IF \E i \in DOMAIN us : us[i].clientID = user.clientID THEN "clientID"
  ELSE ""

\* the result of the catch block of registerUser for an error other than
\* E11000
RegisterFailed == Failure("Failed to register user", 0)

\* registerUser lines 17-33: validation, then isUserRegistered is called
StartRegister(r, data) ==
  /\ CanStart(r)
  /\ LET q == [reqs[r] EXCEPT !.op = "register", !.email = data.email,
                              !.rollNo = data.rollNo]
     IN IF ~validateRegistration(data)
        THEN Returns(r, q, Failure("Validation failed", 0))
        ELSE Goes(r, [q EXCEPT !.pc = "isUserRegistered"])
  /\ UNCHANGED <<store, served, origin, now, load, users>>

\* MongoDB runs isUserRegistered; lines 34-44: findByRollNo is called
RegisteredCheck(r) ==
  /\ reqs[r].pc = "isUserRegistered"
  /\ \/ IF isUserRegistered(users, reqs[r].email)
        THEN Returns(r, reqs[r], Failure("You can register only once", 409))
        ELSE Goes(r, [reqs[r] EXCEPT !.pc = "findByRollNo"])
     \/ Returns(r, Faulted(reqs[r]), RegisterFailed)
  /\ UNCHANGED <<store, served, origin, now, load, users>>

\* MongoDB runs findByRollNo; lines 45-70: the credentials are generated,
\* the document is built and save() is called
RollNoCheck(r) ==
  /\ reqs[r].pc = "findByRollNo"
  /\ \/ IF findByRollNo(users, reqs[r].rollNo) # 0
        THEN Returns(r, reqs[r], Failure("Roll number already exists", 409))
        ELSE Goes(r, [reqs[r] EXCEPT !.pc = "saveUser", !.clientID = NewClientIDs[r]])
     \/ Returns(r, Faulted(reqs[r]), RegisterFailed)
  /\ UNCHANGED <<store, served, origin, now, load, users>>

\* MongoDB runs the insert of save(); lines 72-112: a duplicate key
\* (E11000) is reported with its field and 409
InsertUser(r) ==
  /\ reqs[r].pc = "saveUser"
  /\ LET user == NewUser(reqs[r].email, reqs[r].rollNo, reqs[r].clientID)
         field == DuplicateUserKey(users, user)
     IN \/ /\ field = ""
           /\ users' = Append(users, user)
           /\ Returns(r, reqs[r], Success(NoData))
        \/ /\ field # ""
           /\ Returns(r, reqs[r], Failure(field, 409))
           /\ UNCHANGED users
        \/ /\ Returns(r, Faulted(reqs[r]), RegisterFailed)
           /\ UNCHANGED users
  /\ UNCHANGED <<store, served, origin, now, load>>

\* The method op of the service is called for request r: by the handler of
\* the route, with what the handler reads from the request, once the
\* middleware of a protected route has called next(); at once for the
\* route of the redirect, which has no middleware, and when the workload
\* calls the service itself.
Admitted(r, op) ==
  IF load.headers # {} /\ op \in Protected
  THEN reqs[r].pc = "next" /\ reqs[r].route = op
  ELSE CanStart(r)

---------------------------------------------------------------------------
(* UrlService.createShortUrl (src/unnamed/part_006) *)

\* lines 21-62, up to the first store call
StartCreate(r, url, validity, shortcode) ==
  /\ Admitted(r, "create")
  /\ LET q == [reqs[r] EXCEPT !.op = "create", !.url = url,
                              !.validity = validity, !.shortcode = shortcode]
     IN IF ~validateUrlRequest(url, validity, shortcode)
        THEN Returns(r, q, Failure("Validation failed", 0))
        ELSE IF shortcode # NoCode
        THEN IF ~validateShortcode(shortcode)
             THEN Returns(r, q, Failure("Invalid shortcode format", 0))
             ELSE IF isReservedShortcode(shortcode)
             THEN Returns(r, q, Failure("Shortcode not available", 0))
             ELSE Goes(r, [q EXCEPT !.pc = "exists"])
        ELSE Goes(r, [q EXCEPT !.pc = "generate", !.attempt = 1])
  /\ UNCHANGED <<store, served, origin, now, load, users>>

\* validateCustomShortcode lines 160-176: MongoDB runs shortcodeExists; a
\* store error is caught and reported as not valid
CustomExists(r) ==
  /\ reqs[r].pc = "exists"
  /\ LET q == [reqs[r] EXCEPT !.seen = StoredUnder(store, reqs[r].shortcode, now, now)]
     IN \/ IF shortcodeExists(store, q.shortcode)
           THEN Returns(r, q, Failure("Shortcode not available", 0))
           ELSE Goes(r, [q EXCEPT !.pc = "available"])
        \/ Returns(r, Faulted(q), Failure("Shortcode not available", 0))
  /\ UNCHANGED <<store, served, origin, now, load, users>>

\* generateUnique: one round, generate() and shortcodeExists; a store error
\* is caught and the loop goes on; after maxAttempts rounds it throws, which
\* createShortUrl catches
GenerateRound(r) ==
  /\ reqs[r].pc = "generate"
  /\ LET q == reqs[r]
         again(p) == IF p.attempt < maxAttempts
                     THEN Goes(r, [p EXCEPT !.attempt = @ + 1])
                     ELSE Returns(r, p, Failure("Failed to create short URL", 0))
     IN \/ \E shortcode \in load.nanoid :
             IF ~shortcodeExists(store, shortcode)
             THEN Goes(r, [q EXCEPT !.pc = "available", !.generated = shortcode,
                                    !.attempt = 0])
             ELSE again(q)
        \/ again(Faulted(q))
  /\ UNCHANGED <<store, served, origin, now, load, users>>

\* lines 38-62: finalShortcode is the custom code as validateShortcode
\* returned it, or the code generateUnique returned
finalShortcode(q) ==
  IF q.shortcode # NoCode THEN q.shortcode ELSE q.generated

\* line 35: validity || config.shortener.defaultValidity
expiryMinutes(validity) ==
  IF validityValue(validity) = 0 THEN defaultValidity ELSE validityValue(validity)

\* The clock is read twice while the document is built: by Date.now() in
\* the expression of expiresAt (line 68) and then by the default of
\* createdAt, Date.now (Url.js line 43), when new Url() applies it.  The
\* milliseconds that may pass between the two readings:
ClockSkews == {0, 1}

\* lines 64-74: the document is built and save() is called; pre('save')
\* lowercases the shortcode
BuildUrl(r) ==
  /\ reqs[r].pc = "available"
  /\ \E skew \in ClockSkews :
       /\ LET urlDoc == NewUrl(finalShortcode(reqs[r]), sanitizeUrl(reqs[r].url),
                               now + expiryMinutes(reqs[r].validity) * MsPerMinute,
                               now + skew)
          IN Goes(r, [reqs[r] EXCEPT !.pc = "insert", !.doc = preSave(urlDoc)])
       /\ now' = now + skew
  /\ UNCHANGED <<store, served, origin, load, users>>

\* lines 74-109: MongoDB runs the insert; a duplicate key (E11000) or another
\* store error is caught
InsertUrl(r) ==
  /\ reqs[r].pc = "insert"
  /\ LET urlDoc == reqs[r].doc
     IN \/ /\ ~DuplicateKey(store, urlDoc)
           /\ store' = insertDoc(store, urlDoc)
           /\ served' = Append(served, 0)
           /\ origin' = Append(origin, [shortcode |-> finalShortcode(reqs[r]),
                                        url |-> reqs[r].url,
                                        expiry |-> urlDoc.expiresAt])
           /\ Returns(r, [reqs[r] EXCEPT !.doc.id = Len(store) + 1],
                      Success([NoData EXCEPT !.shortLink = shortLink(urlDoc),
                                             !.expiry = urlDoc.expiresAt]))
        \/ /\ DuplicateKey(store, urlDoc)
           /\ Returns(r, reqs[r], Failure("Shortcode already exists", 0))
           /\ UNCHANGED <<store, served, origin>>
        \/ /\ Returns(r, Faulted(reqs[r]), Failure("Failed to create short URL", 0))
           /\ UNCHANGED <<store, served, origin>>
  /\ UNCHANGED <<now, load, users>>

---------------------------------------------------------------------------
(* GeoIpService.getLocation (src/affordmed/src/services/geoIp.js) *)

\* isPrivateIp: of the addresses of the workloads, those that match one of
\* the expressions of lines 35-43 (/^127\./ and /^::1$/)
isPrivateIp(ip) == ip \in {"127.0.0.1", "::1"}

\* what the geolocation service may answer: data, a non-success status, or
\* no answer (a network error or the timeout)
GeoResponses ==
  { [status |-> "success", country |-> "India", regionName |-> "Andhra Pradesh", city |-> ""],
    [status |-> "fail", country |-> "", regionName |-> "", city |-> ""],
    [status |-> "error", country |-> "", regionName |-> "", city |-> ""] }

OrUnknown(x) == IF x = "" THEN "Unknown" ELSE x

\* a getLocation that hands on what the service answered
getLocation_Propagate(ip, response) ==
  [country |-> response.country, region |-> response.regionName,
   city |-> response.city, ip |-> ip]

\* getLocation, given the service's answer
getLocation(ip, response) ==
  IF isPrivateIp(ip) THEN Unknown(ip)
  ELSE IF response.status = "success"
  THEN [country |-> OrUnknown(response.country), region |-> OrUnknown(response.regionName),
        city |-> OrUnknown(response.city), ip |-> ip]
  ELSE Unknown(ip)

---------------------------------------------------------------------------
(* UrlService.getUrlStats and redirectToUrl (src/unnamed/part_006) *)

\* lines 115-128 and 178-191: validation, then findByShortcode is called
\* with the Date of this moment
StartLookup(r, op, shortcode, ctx) ==
  /\ Admitted(r, op)
  /\ LET q == [reqs[r] EXCEPT !.op = op, !.shortcode = shortcode, !.ctx = ctx]
     IN IF ~validateShortcode(shortcode)
        THEN Returns(r, q, Failure("Invalid shortcode format",
                                   IF op = "redirect" THEN 400 ELSE 0))
        ELSE Goes(r, [q EXCEPT !.pc = "find", !.date = now])
  /\ UNCHANGED <<store, served, origin, now, load, users>>

StartStats(r, shortcode) == StartLookup(r, "stats", shortcode, NoContext)

StartRedirect(r, shortcode, ctx) == StartLookup(r, "redirect", shortcode, ctx)

\* a catch block that answers success
Caught_Acknowledged(op) == Success(NoData)

\* the result of the catch block of the method
Caught(op) ==
  CASE op = "stats" -> Failure("Failed to get URL statistics", 0)
    [] op = "redirect" -> Failure("Failed to redirect to URL", 0)
    [] op = "delete" -> Failure("Failed to delete URL", 0)
    [] OTHER -> Failure("Failed to create short URL", 0)

\* MongoDB runs findByShortcode; lines 130-136 and 193-199: no document
FindUrl(r) ==
  /\ reqs[r].pc = "find"
  /\ LET id == findByShortcode(store, reqs[r].shortcode, reqs[r].date)
         q == [reqs[r] EXCEPT !.seen = StoredUnder(store, reqs[r].shortcode, now, reqs[r].date),
                              !.date = 0]
     IN \/ IF id = 0
           THEN Returns(r, q, Failure("URL not found", 404))
           ELSE Goes(r, [q EXCEPT !.pc = "found", !.doc = Load(store, id)])
        \/ Returns(r, Faulted(q), Caught(q.op))
  /\ UNCHANGED <<store, served, origin, now, load, users>>

\* lines 153-157: the click event as getUrlStats reports it, without its
\* userAgent
StatsEvent(event) ==
  [timestamp |-> event.timestamp, referrer |-> event.referrer,
   geoLocation |-> event.geoLocation]

\* a response that counts the view of the statistics as a click
StatsResponse_CountsView(urlDoc) ==
  [NoData EXCEPT
     !.totalClicks = urlDoc.clickCount + 1,
     !.originalUrl = urlDoc.originalUrl,
     !.createdAt = urlDoc.createdAt,
     !.expiry = urlDoc.expiresAt,
     !.clickEvents = [k \in DOMAIN urlDoc.clickEvents |->
                        StatsEvent(urlDoc.clickEvents[k])]]

\* lines 148-158: the response of getUrlStats, built from the document the
\* lookup returned
StatsResponse(urlDoc) ==
  [NoData EXCEPT
     !.totalClicks = urlDoc.clickCount,
     !.originalUrl = urlDoc.originalUrl,
     !.createdAt = urlDoc.createdAt,
     !.expiry = urlDoc.expiresAt,
     !.clickEvents = [k \in DOMAIN urlDoc.clickEvents |->
                        StatsEvent(urlDoc.clickEvents[k])]]

\* lines 138-164: the expiry check with the clock of this moment, then the
\* response
StatsFound(r) ==
  /\ reqs[r].pc = "found"
  /\ reqs[r].op = "stats"
  /\ LET urlDoc == reqs[r].doc
     IN IF isExpired(urlDoc, now)
        THEN Returns(r, reqs[r], Failure("URL has expired", 410))
        ELSE Returns(r, reqs[r], Success(StatsResponse(urlDoc)))
  /\ UNCHANGED <<store, served, origin, now, load, users>>

\* lines 214-223: addClickEvent changes the document in memory and calls save()
RecordClick(q, date, geoLocation) ==
  [q EXCEPT !.pc = "save",
            !.doc = addClickEvent(q.doc, ClickEvent(date, q.ctx, geoLocation))]

\* lines 201-212: the expiry check with the clock of this moment, then the
\* geolocation lookup; for a private address getLocation returns without a
\* call to the service and lines 214-223 follow at once
RedirectFound(r) ==
  /\ reqs[r].pc = "found"
  /\ reqs[r].op = "redirect"
  /\ LET urlDoc == reqs[r].doc
         clientIp == reqs[r].ctx.ip
     IN IF isExpired(urlDoc, now)
        THEN Returns(r, reqs[r], Failure("URL has expired", 410))
        ELSE IF isPrivateIp(clientIp)
        THEN Goes(r, RecordClick(reqs[r], now, Unknown(clientIp)))
        ELSE Goes(r, [reqs[r] EXCEPT !.pc = "geo"])
  /\ UNCHANGED <<store, served, origin, now, load, users>>

\* the geolocation service answers or fails; lines 214-223
GeoReturn(r) ==
  /\ reqs[r].pc = "geo"
  /\ \E response \in GeoResponses :
       Goes(r, RecordClick(reqs[r], now, getLocation(reqs[r].ctx.ip, response)))
  /\ UNCHANGED <<store, served, origin, now, load, users>>

\* MongoDB runs the update of save(); lines 225-250
SaveClick(r) ==
  /\ reqs[r].pc = "save"
  /\ LET urlDoc == reqs[r].doc
     IN \/ /\ ~VersionError(store, urlDoc)
           /\ store' = saveDoc(store, urlDoc)
           /\ served' = [served EXCEPT ![urlDoc.id] = @ + 1]
           /\ Returns(r, reqs[r],
                      Success([NoData EXCEPT !.originalUrl = urlDoc.originalUrl]))
        \/ /\ Returns(r, Faulted(reqs[r]), Caught("redirect"))
           /\ UNCHANGED <<store, served>>
  /\ UNCHANGED <<origin, now, load, users>>

---------------------------------------------------------------------------
(* UrlService.deleteUrl (src/unnamed/part_006) *)

\* lines 256-268: validation, then findOne({ shortcode }) is called
StartDelete(r, shortcode) ==
  /\ Admitted(r, "delete")
  /\ LET q == [reqs[r] EXCEPT !.op = "delete", !.shortcode = shortcode]
     IN IF ~validateShortcode(shortcode)
        THEN Returns(r, q, Failure("Invalid shortcode format", 0))
        ELSE Goes(r, [q EXCEPT !.pc = "findOne"])
  /\ UNCHANGED <<store, served, origin, now, load, users>>

\* MongoDB runs findOne; lines 270-278: deactivate changes the document in
\* memory and calls save()
DeleteFind(r) ==
  /\ reqs[r].pc = "findOne"
  /\ LET id == findOneByShortcode(store, reqs[r].shortcode)
         q == [reqs[r] EXCEPT !.seen = StoredUnder(store, reqs[r].shortcode, now, now)]
     IN \/ IF id = 0
           THEN Returns(r, q, Failure("URL not found", 0))
           ELSE Goes(r, [q EXCEPT !.pc = "deactivate", !.doc = deactivate(Load(store, id))])
        \/ Returns(r, Faulted(q), Caught("delete"))
  /\ UNCHANGED <<store, served, origin, now, load, users>>

\* MongoDB runs the update of save(), which sends none when no path is
\* modified; lines 280-293
DeleteSave(r) ==
  /\ reqs[r].pc = "deactivate"
  /\ \/ /\ store' = saveDoc(store, reqs[r].doc)
        /\ Returns(r, reqs[r], Success(NoData))
     \/ /\ reqs[r].doc.modified # {}
        /\ Returns(r, Faulted(reqs[r]), Caught("delete"))
        /\ UNCHANGED store
  /\ UNCHANGED <<served, origin, now, load, users>>

---------------------------------------------------------------------------
(* UrlService.cleanupExpiredUrls (src/unnamed/part_006) *)

RECURSIVE Ascending(_)
\* the elements of a set of ids in ascending (natural) order
Ascending(S) ==
  IF S = {} THEN <<>>
  ELSE LET m == CHOOSE i \in S : \A j \in S : i <= j
       IN <<m>> \o Ascending(S \ {m})

\* lines 324-326: getExpiredUrls is called with the Date of this moment
StartSweep(r) ==
  /\ CanStart(r)
  /\ LET alone == \A q \in Reqs \ {r} : reqs[q].pc = "done"
         again == /\ alone
                  /\ last.op = "sweep"
                  /\ last.result.success
                  /\ last.began.date = now
     IN Goes(r, [reqs[r] EXCEPT !.op = "sweep", !.pc = "expired", !.date = now,
                                !.began = [store |-> IF alone THEN store ELSE <<>>,
                                           date |-> now, alone |-> alone,
                                           again |-> again]])
  /\ UNCHANGED <<store, served, origin, now, load, users>>

\* the error cleanupExpiredUrls rethrows
Thrown == Failure("thrown", 0)

\* MongoDB runs the find; lines 327-338: the loop starts, or the count 0 is
\* returned
SweepFind(r) ==
  /\ reqs[r].pc = "expired"
  /\ LET ids == Ascending(getExpiredUrls(store, reqs[r].date))
         expiredUrls == [k \in DOMAIN ids |-> Load(store, ids[k])]
         q == [reqs[r] EXCEPT !.date = 0]
     IN \/ IF expiredUrls = <<>>
           THEN Returns(r, q, Success([NoData EXCEPT !.cleaned = 0]))
           ELSE Goes(r, [q EXCEPT !.pc = "cleanup", !.pending = expiredUrls,
                                  !.cleaned = 0])
        \/ Returns(r, Faulted(q), Thrown)
  /\ UNCHANGED <<store, served, origin, now, load, users>>

\* MongoDB runs the update of one deactivate(); lines 329-338
SweepSave(r) ==
  /\ reqs[r].pc = "cleanup"
  /\ LET urlDoc == deactivate(Head(reqs[r].pending))
         rest == Tail(reqs[r].pending)
         cleanedCount == reqs[r].cleaned + 1
     IN \/ /\ store' = saveDoc(store, urlDoc)
           /\ IF rest = <<>>
              THEN Returns(r, reqs[r], Success([NoData EXCEPT !.cleaned = cleanedCount]))
              ELSE Goes(r, [reqs[r] EXCEPT !.pending = rest, !.cleaned = cleanedCount])
        \/ /\ Returns(r, Faulted(reqs[r]), Thrown)
           /\ UNCHANGED store
  /\ UNCHANGED <<served, origin, now, load, users>>

---------------------------------------------------------------------------
(* The specification *)

Next ==
  \/ Tick
  \/ \E r \in Reqs :
       \/ \E route \in Protected : \E authHeader \in load.headers :
            Authenticate(r, route, authHeader)
       \/ GetUser(r)
       \/ \E data \in load.registrations : StartRegister(r, data)
       \/ RegisteredCheck(r)
       \/ RollNoCheck(r)
       \/ InsertUser(r)
       \/ \E body \in load.creates :
            StartCreate(r, body.url, body.validity, body.shortcode)
       \/ CustomExists(r)
       \/ GenerateRound(r)
       \/ BuildUrl(r)
       \/ InsertUrl(r)
       \/ \E shortcode \in load.stats : StartStats(r, shortcode)
       \/ \E redirect \in load.redirects : StartRedirect(r, redirect[1], redirect[2])
       \/ FindUrl(r)
       \/ StatsFound(r)
       \/ RedirectFound(r)
       \/ GeoReturn(r)
       \/ SaveClick(r)
       \/ \E shortcode \in load.deletes : StartDelete(r, shortcode)
       \/ DeleteFind(r)
       \/ DeleteSave(r)
       \/ load.sweeps /\ StartSweep(r)
       \/ SweepFind(r)
       \/ SweepSave(r)

Spec == Init /\ [][Next]_vars

---------------------------------------------------------------------------
(* Claims *)

Min(a, b) == IF a < b THEN a ELSE b

\* the requests that are redirects holding document i in memory
RedirectsOf(i) ==
  {r \in Reqs : reqs[r].op = "redirect" /\ reqs[r].doc.id = i}

\* C1: when the redirects of one code have all returned, N of them with
\* success, the stored document has clickCount = N and min(N, 100) click
\* events: no click is lost to a concurrent update.
C1_NoClickLost ==
  \A i \in Ids(store) :
    RedirectsOf(i) = {} =>
      /\ store[i].clickCount = served[i]
      /\ Len(store[i].clickEvents) = Min(served[i], maxClickEvents)

\* the request of the last return was a Create with a custom code that
\* passed validation
LastCustomCreate ==
  /\ last.op = "create"
  /\ last.shortcode # NoCode
  /\ last.result.error \notin {"Validation failed", "Invalid shortcode format"}

\* C2: of the Creates that carry the same custom code up to case at most
\* one returns success: one document exists under the lowercased code, its
\* originalUrl and expiresAt are those of the Create that inserted it
\* whatever the others did, a Create that returns success has inserted its
\* own document, and a Create that finds the code taken returns
\* 'Shortcode not available' or 'Shortcode already exists' (or the store's
\* failure) and inserts nothing.
C2_CustomCodeRace ==
  /\ \A i, j \in Ids(store) :
       toLowerCase(store[i].shortcode) = toLowerCase(store[j].shortcode) => i = j
  /\ \A i \in Ids(store) :
       /\ store[i].shortcode = toLowerCase(origin[i].shortcode)
       /\ store[i].originalUrl = sanitizeUrl(origin[i].url)
       /\ store[i].expiresAt = origin[i].expiry
  /\ LastCustomCreate =>
       IF last.result.success
       THEN /\ last.id \in Ids(store)
            /\ origin[last.id] = [shortcode |-> last.shortcode, url |-> last.url,
                                  expiry |-> last.result.data.expiry]
       ELSE /\ last.id = 0
            /\ Len(store) = Len(origin)
            /\ last.result.error \in {"Shortcode not available",
                                      "Shortcode already exists",
                                      "Failed to create short URL"}
            /\ last.result.error = "Shortcode already exists" =>
                 \E i \in Ids(store) : store[i].shortcode = toLowerCase(last.shortcode)

\* a Create lost the race for a code that another Create, which spelled it
\* in another case, had inserted after both found it free
C2_Witness ==
  /\ LastCustomCreate
  /\ last.result.error = "Shortcode already exists"
  /\ ~last.seen.exists
  /\ \E i \in Ids(store) :
       /\ store[i].shortcode = toLowerCase(last.shortcode)
       /\ origin[i].shortcode # last.shortcode

\* C3: no two stored documents, active or not, expired or not, have the
\* same lowercased shortcode, and every stored shortcode is in lowercase.
C3_UniqueNormalizedCodes ==
  /\ \A i, j \in Ids(store) :
       i # j => toLowerCase(store[i].shortcode) # toLowerCase(store[j].shortcode)
  /\ \A i \in Ids(store) : store[i].shortcode = toLowerCase(store[i].shortcode)

\* a code sent in mixed case is stored, and its document is deactivated
C3_Witness ==
  \E i \in Ids(store) :
    /\ origin[i].shortcode # store[i].shortcode
    /\ ~store[i].isActive

\* the last return was that of a GetStats or Redirect whose code was well
\* formed and whose store calls did not fail
LastLookup ==
  /\ last.op \in {"stats", "redirect"}
  /\ last.result.error \notin {"Invalid shortcode format",
                               "Failed to get URL statistics",
                               "Failed to redirect to URL"}

\* C4: a GetStats or Redirect whose lookup met an active document with
\* expiresAt in the past returns 'URL has expired' (410), and one whose
\* lookup met no document, or an inactive one, returns 'URL not found' (404).
C4_ExpiredIsGone ==
  LastLookup =>
    /\ (last.seen.exists /\ last.seen.isActive /\ last.seen.past) =>
         last.result.statusCode = 410
    /\ (~last.seen.exists \/ ~last.seen.isActive) =>
         last.result.statusCode = 404

\* C5: a Redirect whose lookup met a document with expiresAt in the past
\* does not return success, and its return leaves the clickCount and the
\* clickEvents of every document as they were.
C5_ExpiredRedirectInert ==
  [][(/\ last'.n # last.n
      /\ last'.op = "redirect"
      /\ last'.seen.exists
      /\ last'.seen.past)
     => /\ ~last'.result.success
        /\ served' = served
        /\ \A i \in Ids(store) :
             /\ store'[i].clickCount = store[i].clickCount
             /\ store'[i].clickEvents = store[i].clickEvents]_vars

\* a Redirect of an active document that was past its expiry has returned
\* a failure
C5_Witness ==
  /\ last.op = "redirect"
  /\ last.seen.exists /\ last.seen.isActive /\ last.seen.past
  /\ ~last.result.success

\* C6: a GetStats or Redirect whose lookup met a deactivated document never
\* returns 'URL has expired' (410): unless a store call failed it returns
\* 'URL not found' (404), whether the document's expiresAt has passed or not.
C6_DeactivatedIsNotFound ==
  (/\ last.op \in {"stats", "redirect"}
   /\ last.seen.exists
   /\ ~last.seen.isActive)
  => /\ ~last.result.success
     /\ last.result.statusCode # 410
     /\ LastLookup =>
          /\ last.result.statusCode = 404
          /\ last.result.error = "URL not found"

\* a lookup of a deactivated document that is also past its expiry has
\* returned 404
C6_Witness ==
  /\ LastLookup
  /\ last.seen.exists /\ ~last.seen.isActive /\ last.seen.past
  /\ last.result.statusCode = 404

C8_ReservedRejected ==
  [][(/\ last'.n # last.n
      /\ last'.op = "create"
      /\ last'.result.error # "Validation failed"
      /\ toLowerCase(last'.shortcode) \in reservedShortcodes)
     => /\ ~last'.result.success
        /\ last'.result.error = "Shortcode not available"
        /\ store' = store]_vars

\* a Create with a reserved word in mixed case has been refused
C8_Witness ==
  /\ last.op = "create"
  /\ toLowerCase(last.shortcode) \in reservedShortcodes
  /\ last.shortcode \notin reservedShortcodes
  /\ last.result.error = "Shortcode not available"
  /\ ~last.result.success

\* C9: a Create whose custom code was, in lowercase, the code of a stored
\* document when the store was asked, be the document active, deactivated
\* or past its expiry, returns 'Shortcode not available' and its return
\* leaves the store as it was.
C9_IssuedCodeUnavailable ==
  [][(/\ last'.n # last.n
      /\ last'.op = "create"
      /\ last'.shortcode # NoCode
      /\ last'.seen.exists)
     => /\ ~last'.result.success
        /\ last'.result.error = "Shortcode not available"
        /\ store' = store]_vars

\* a Create with the code of a deactivated document, spelled in another
\* case, has been refused
C9_Witness ==
  /\ last.op = "create"
  /\ last.seen.exists /\ ~last.seen.isActive
  /\ last.shortcode # toLowerCase(last.shortcode)
  /\ last.result.error = "Shortcode not available"

\* the lookup of the last return met an active document whose expiresAt was
\* after the Date of the lookup
LastResolvable == last.seen.exists /\ last.seen.isActive /\ last.seen.live

C11_ClickCountCounts ==
  [][\A i \in Ids(store) :
       /\ store'[i].clickCount >= store[i].clickCount
       /\ (/\ last'.n # last.n
           /\ last'.op = "redirect"
           /\ last'.result.success
           /\ last'.id = i)
          => store'[i].clickCount = store[i].clickCount + 1]_vars

\* C12: every stored document holds min(clickCount, 100) click events.
C12_HistoryLength ==
  \A i \in Ids(store) :
    Len(store[i].clickEvents) = Min(store[i].clickCount, maxClickEvents)

\* the last n elements of a sequence, all of them when it has fewer
LastOf(seq, n) ==
  IF Len(seq) > n THEN SubSeq(seq, Len(seq) - n + 1, Len(seq)) ELSE seq

\* C13: a click appended to a document that no other request has changed
\* since it was loaded is never refused by the version filter of save(), and
\* when its save() succeeds the stored clickEvents are the last 100 of the
\* former events followed by the new one, in that order: the 101st click
\* evicts the oldest.
C13_RingBuffer ==
  [][\A r \in Reqs :
       LET urlDoc == reqs[r].doc
           i == urlDoc.id
       IN (/\ reqs[r].pc = "save"
           /\ store[i].v = urlDoc.v)
          => /\ ~VersionError(store, urlDoc)
             /\ (reqs'[r].pc = "done" /\ last'.result.success) =>
                  store'[i].clickEvents =
                    LastOf(Append(store[i].clickEvents,
                                  urlDoc.clickEvents[Len(urlDoc.clickEvents)]),
                           maxClickEvents)]_vars

\* two clicks were appended in turn to a history of 99: the stored history
\* holds 100 events, the oldest of them the second click of the document
C13_Witness ==
  \E i \in Ids(store) :
    /\ store[i].clickCount = maxClickEvents + 1
    /\ Len(store[i].clickEvents) = maxClickEvents
    /\ store[i].clickEvents[1].timestamp = 2
    /\ last.op = "redirect" /\ last.result.success

\* C14: a Redirect that returns success returns from the update of its
\* save(), by which the store holds its click event and its clickCount; a
\* Redirect whose return leaves the store as it was, the update having
\* failed among the reasons, returns a failure, and a failure carries no
\* target URL.
C14_ClickWrittenBeforeSuccess ==
  [][\A r \in Reqs :
       LET urlDoc == reqs[r].doc
           i == urlDoc.id
       IN (reqs[r].op = "redirect" /\ reqs'[r].pc = "done")
          => /\ last'.result.success =>
                  /\ reqs[r].pc = "save"
                  /\ last'.result.data.originalUrl = store[i].originalUrl
                  /\ store'[i].clickCount = urlDoc.clickCount
                  /\ store'[i].clickEvents # NoEvents
                  /\ store'[i].clickEvents[Len(store'[i].clickEvents)] =
                       urlDoc.clickEvents[Len(urlDoc.clickEvents)]
             /\ store' = store => ~last'.result.success
             /\ ~last'.result.success => last'.result.data.originalUrl = NoUrl]_vars

\* the update of a Redirect's click failed and the Redirect returned
\* 'Failed to redirect to URL'
C14_Witness ==
  /\ last.op = "redirect"
  /\ last.id \in Ids(store)
  /\ last.seen.exists /\ last.seen.isActive /\ last.seen.live
  /\ ~last.result.success
  /\ last.result.error = "Failed to redirect to URL"
  /\ last.result.data.originalUrl = NoUrl

\* the location of a click whose address could not be located
FallbackLocation(ip) ==
  [country |-> "Unknown", region |-> "Unknown", city |-> "Unknown", ip |-> ip]

\* the click event a Redirect holds in memory once it has built it
ClickOf(q) == q.doc.clickEvents[Len(q.doc.clickEvents)]

\* C15: getLocation returns the 'Unknown' location with the client's
\* address for a private address and for every answer of the service other
\* than a success; the step of a Redirect that follows the expiry check for
\* a private address, and the step that follows the service's answer or
\* failure, never return: they build the click event, with that location
\* unless the service answered with success, and call save().
C15_GeoFailureDegrades ==
  /\ [](\A ctx \in {Local, Remote} : \A response \in GeoResponses :
          (isPrivateIp(ctx.ip) \/ response.status # "success")
            => getLocation(ctx.ip, response) = FallbackLocation(ctx.ip))
  /\ [](\A r \in Reqs :
          (reqs[r].op = "redirect" /\ reqs[r].pc = "save")
            => /\ ClickOf(reqs[r]).geoLocation.ip = reqs[r].ctx.ip
               /\ \/ ClickOf(reqs[r]).geoLocation = FallbackLocation(reqs[r].ctx.ip)
                  \/ /\ ~isPrivateIp(reqs[r].ctx.ip)
                     /\ \E response \in GeoResponses :
                          /\ response.status = "success"
                          /\ ClickOf(reqs[r]).geoLocation.country = response.country)
  /\ [][\A r \in Reqs :
         /\ (reqs[r].pc = "geo" /\ reqs'[r] # reqs[r]) => reqs'[r].pc = "save"
         /\ (/\ reqs[r].pc = "found" /\ reqs[r].op = "redirect"
             /\ reqs'[r] # reqs[r]
             /\ reqs[r].doc.expiresAt >= now)
            => reqs'[r].pc = IF reqs[r].ctx.ip = Local.ip THEN "save" ELSE "geo"]_vars

\* a Redirect from a public address whose location could not be found has
\* returned success, its click stored with the 'Unknown' location
C15_Witness ==
  /\ last.op = "redirect"
  /\ last.result.success
  /\ \E i \in Ids(store) : \E k \in 1..Len(store[i].clickEvents) :
       /\ store[i].clickEvents[k].geoLocation = FallbackLocation(Remote.ip)
       /\ store[i].clickEvents[k].userAgent = Remote.userAgent

\* C16: a Create, GetStats, Redirect or Delete one of whose store calls
\* failed returns the failure of its catch block, not success and not
\* 'Shortcode not available', 'Shortcode already exists', 'URL not found' or
\* 'URL has expired'.
C16_StoreFailureSurfaced ==
  (last.op \in {"create", "stats", "redirect", "delete"} /\ last.seen.failed)
    => /\ ~last.result.success
       /\ last.result.error \in {"Failed to create short URL",
                                 "Failed to get URL statistics",
                                 "Failed to redirect to URL",
                                 "Failed to delete URL"}

\* the validity a Create asked for, 30 when its body had none
AskedMinutes(validity) == IF validity = NoValidity THEN 30 ELSE validity

\* C17: the document a Create has stored has expiresAt - createdAt equal to
\* the validity asked for, in minutes (30 when none was given), and its code
\* has 3 to 20 characters, all of them letters, digits, '_' or '-'.
C17_ExpiryIsValidity ==
  (last.op = "create" /\ last.result.success)
    => /\ last.id \in Ids(store)
       /\ store[last.id].expiresAt - store[last.id].createdAt
            = AskedMinutes(last.validity) * 60 * 1000
       /\ Len(store[last.id].shortcode) \in 3..20
       /\ \A k \in 1..Len(store[last.id].shortcode) :
            store[last.id].shortcode[k] \in
              Range(UpperLetters) \cup Range(LowerLetters) \cup Digits \cup {"_", "-"}

\* the validities a Create may ask for
ValidMinutes == 1..1440

\* C18: every stored document has createdAt < expiresAt <= createdAt + 1440
\* minutes, and a Create whose validity is given and is not an integer from
\* 1 to 1440 returns 'Validation failed' and leaves the store as it was.
C18_ExpiryWithinADay ==
  /\ [](\A i \in Ids(store) :
          /\ store[i].createdAt < store[i].expiresAt
          /\ store[i].expiresAt <= store[i].createdAt + 1440 * 60 * 1000)
  /\ [][(/\ last'.n # last.n
         /\ last'.op = "create"
         /\ last'.validity # NoValidity
         /\ last'.validity \notin ValidMinutes)
        => /\ last'.result.error = "Validation failed"
           /\ ~last'.result.success
           /\ store' = store]_vars

\* a Create with a validity of a day and a minute was refused while the
\* store holds a document of an earlier Create
C18_Witness ==
  /\ last.op = "create"
  /\ last.validity = 1441
  /\ last.result.error = "Validation failed"
  /\ store # <<>>
  /\ \E i \in Ids(store) : store[i].expiresAt - store[i].createdAt < 30 * 60 * 1000

\* C19: a sweep that began when every other request had returned, and that
\* returns its count, has set isActive to FALSE on exactly the documents
\* that were active with expiresAt before its Date when it began, returns
\* their number, and leaves everything else in the collection as it was.
C19_SweepDeactivatesExpired ==
  [][\A r \in Reqs :
       (/\ reqs[r].op = "sweep"
        /\ reqs[r].began.alone
        /\ reqs'[r].pc = "done"
        /\ last'.result.success)
       => LET before == reqs[r].began.store
              expired == {i \in DOMAIN before :
                            /\ before[i].isActive
                            /\ before[i].expiresAt < reqs[r].began.date}
          IN /\ last'.result.data.cleaned = Cardinality(expired)
             /\ store' = [i \in DOMAIN before |->
                            IF i \in expired
                            THEN [before[i] EXCEPT !.isActive = FALSE]
                            ELSE before[i]]]_vars

\* a sweep that ran alone has deactivated the one expired active document
\* of a collection that also holds an expired inactive document and an
\* active one that has not expired
C19_Witness ==
  /\ last.op = "sweep"
  /\ last.began.alone
  /\ last.result.success
  /\ last.result.data.cleaned = 1
  /\ \E i, j, k \in Ids(store) :
       /\ ~store[i].isActive /\ store[i].expiresAt < last.began.date
       /\ store[i].shortcode = toLowerCase(CodeMixed)
       /\ ~store[j].isActive /\ store[j].shortcode = toLowerCase(CodeGen)
       /\ store[k].isActive /\ store[k].expiresAt > now

\* C20: a sweep that began alone right after a sweep that had returned its
\* count, the clock being that at which the former began, finds no document:
\* unless its store call fails it returns 0, and the collection stays as it
\* was when it began.
C20_SweepIdempotent ==
  [][\A r \in Reqs :
       (reqs[r].op = "sweep" /\ reqs[r].began.again)
       => /\ reqs'[r].pc # "cleanup"
          /\ store' = reqs[r].began.store
          /\ (reqs'[r].pc = "done" /\ ~last'.seen.failed)
             => /\ last'.result.success
                /\ last'.result.data.cleaned = 0]_vars

\* the second of two sweeps has returned 0, the first having deactivated a
\* document
C20_Witness ==
  /\ last.op = "sweep"
  /\ last.began.again
  /\ last.result.success
  /\ last.result.data.cleaned = 0
  /\ \E i \in Ids(store) :
       /\ ~store[i].isActive
       /\ store[i].expiresAt < last.began.date
       /\ store[i].shortcode = toLowerCase(CodeMixed)
  /\ \E i \in Ids(store) : store[i].isActive

\* a stored document but for its isActive
ButActive(stored) == [stored EXCEPT !.isActive = TRUE]

C22_DeactivationTerminal ==
  [][\A i \in Ids(store) : ~store[i].isActive => ~store'[i].isActive]_vars

\* a Redirect whose lookup met the document active has stored its click
\* after the document was deactivated, and the document is still inactive
C22_Witness ==
  /\ last.op = "redirect"
  /\ last.result.success
  /\ last.seen.isActive
  /\ last.id \in Ids(store)
  /\ ~store[last.id].isActive
  /\ store[last.id].clickCount = 1

\* the error createShortUrl returns when generateUnique has thrown
Exhausted == Failure("Failed to create short URL", 0)

\* C23: generateUnique is in one of its rounds 1 to maxAttempts (10); a
\* round ends the loop with a code under which the store holds no document
\* at that moment, or goes on to the next round, or, being round maxAttempts,
\* ends the loop with its error and the store as it was; when no store call
\* of the request has failed, the store then holds a document under a code
\* the generator can produce.
C23_GenerateUniqueBounded ==
  [][\A r \in Reqs :
       reqs[r].pc = "generate" =>
         /\ reqs[r].attempt \in 1..10
         /\ reqs'[r] # reqs[r] =>
              \/ /\ reqs'[r].pc = "available"
                 /\ reqs'[r].generated \in load.nanoid
                 /\ \A i \in Ids(store) :
                      store[i].shortcode # toLowerCase(reqs'[r].generated)
              \/ /\ reqs'[r].pc = "generate"
                 /\ reqs'[r].attempt = reqs[r].attempt + 1
              \/ /\ reqs'[r].pc = "done"
                 /\ reqs[r].attempt = 10
                 /\ last'.result = Exhausted
                 /\ store' = store
                 /\ ~last'.seen.failed =>
                      \E code \in load.nanoid : \E i \in Ids(store) :
                        store[i].shortcode = toLowerCase(code)]_vars

\* a Create without a code has failed after ten rounds that found their
\* candidates in use, no store call having failed
C23_Witness ==
  /\ last.op = "create"
  /\ last.shortcode = NoCode
  /\ last.result = Exhausted
  /\ ~last.seen.failed
  /\ last.id = 0
  /\ store # <<>>

\* the header carries a bearer token that jwt.verify accepts at clock date
\* and whose clientID is that of a stored user with isRegistered
Credential(header, date) ==
  /\ Len(header) = 2
  /\ header[1] = "Bearer"
  /\ header[2].signed
  /\ date < header[2].exp
  /\ \E i \in DOMAIN users :
       users[i].clientID = header[2].clientID /\ users[i].isRegistered

\* request r, not yet in a method of the service, enters method op or
\* returns from it in this step
Enters(r, op) ==
  /\ reqs[r].op = ""
  /\ reqs[r].pc # "done"
  /\ \/ reqs'[r].op = op
     \/ reqs'[r].pc = "done" /\ last'.op = op

C25_ConflictIs409 ==
  (last.op = "create" /\ ~last.result.success) =>
    /\ last.result.error = "Shortcode already exists" => last.status = 409
    /\ (last.result.error = "Shortcode not available" /\ last.seen.exists)
         => last.status = 409
    /\ last.result.error \in {"Validation failed", "Invalid shortcode format"}
         => last.status = 400

\* the stored users whose email, in lowercase, or whose roll number,
\* without the spaces around it, is that of a registration
Registered(us, email, rollNo) ==
  {i \in DOMAIN us : \/ toLowerCase(us[i].email) = toLowerCase(email)
                      \/ trim(us[i].rollNo) = trim(rollNo)}

\* C26: no two stored users have the same email or the same roll number; no
\* step removes or changes a stored user; and a registration that returns
\* while a user with its email or its roll number is stored, no store call
\* of its own having failed, returns a failure with status 409 and leaves
\* the users as they were.
C26_RegisterOnce ==
  /\ [](\A i, j \in DOMAIN users :
          i # j => /\ toLowerCase(users[i].email) # toLowerCase(users[j].email)
                   /\ users[i].rollNo # users[j].rollNo)
  /\ [][/\ Len(users') >= Len(users)
        /\ \A i \in DOMAIN users : users'[i] = users[i]
        /\ (/\ last'.n # last.n
            /\ last'.op = "register"
            /\ ~last'.seen.failed
            /\ last'.result.error # "Validation failed"
            /\ Registered(users, last'.email, last'.rollNo) # {})
           => /\ ~last'.result.success
              /\ last'.status = 409
              /\ users' = users]_vars

\* of two registrations of a new user that found neither email nor roll
\* number in use, the second to save was refused by the unique index
C26_Witness ==
  /\ last.op = "register"
  /\ last.status = 409
  /\ last.result.error = "email"
  /\ last.email = RegD.email
  /\ Cardinality({i \in DOMAIN users : users[i].email = RegD.email}) = 1

\* C27: no stored document has a shortcode that is, in lowercase, one of
\* the reserved words, whether the code was sent by the caller or generated.
C27_NoReservedStored ==
  \A i \in Ids(store) : toLowerCase(store[i].shortcode) \notin reservedShortcodes

\* C28: the insert of a Create without custom code whose generated code
\* is, in lowercase, that of a stored document is refused: unless the store
\* call itself fails the Create returns 'Shortcode already exists' at once,
\* without another round of the generator, and the store stays as it was,
\* with one document under the code; the insert of a code that no document
\* has is stored and the Create returns success.
C28_GeneratedCodeRace ==
  [][\A r \in Reqs :
       (/\ reqs[r].pc = "insert"
        /\ reqs[r].shortcode = NoCode
        /\ reqs'[r] # reqs[r])
       => LET code == toLowerCase(reqs[r].doc.shortcode)
              under(st) == {i \in Ids(st) : toLowerCase(st[i].shortcode) = code}
          IN /\ reqs'[r].pc = "done"
             /\ Cardinality(under(store')) <= 1
             /\ (under(store) # {} /\ ~last'.seen.failed)
                  => /\ last'.result.error = "Shortcode already exists"
                     /\ ~last'.result.success
                     /\ store' = store
             /\ (under(store) = {} /\ ~last'.seen.failed)
                  => /\ last'.result.success
                     /\ Len(store') = Len(store) + 1
                     /\ \A i \in Ids(store) : store'[i] = store[i]]_vars

\* of two Creates without custom code whose generators gave the same code
\* up to case and found it free, one has stored its document and the other
\* has been refused by the unique index
C28_Witness ==
  /\ last.op = "create"
  /\ last.shortcode = NoCode
  /\ last.result.error = "Shortcode already exists"
  /\ ~last.seen.failed
  /\ Len(store) = 1
  /\ origin[1].shortcode = CodeGenCaps
  /\ store[1].shortcode = toLowerCase(CodeGen)

\* the errors createShortUrl returns
CreateErrors ==
  {"Validation failed", "Invalid shortcode format", "Shortcode not available",
   "Shortcode already exists", "Failed to create short URL"}

\* C29: a Create whose URL is not an http or https URL, or whose custom
\* code is not 3 to 20 characters of letters, digits, '_' and '-', returns
\* 'Validation failed'; and a Create that returns a failure returns one of
\* the results of createShortUrl, not a thrown error, and its return leaves
\* the store as it was.
C29_CreateFailureIsResult ==
  [][(last'.n # last.n /\ last'.op = "create")
     => /\ (\/ last'.url.protocol \notin {"http:", "https:"}
            \/ /\ last'.shortcode # NoCode
               /\ \/ Len(last'.shortcode) \notin 3..20
                  \/ \E k \in DOMAIN last'.shortcode :
                       last'.shortcode[k] \notin
                         Range(UpperLetters) \cup Range(LowerLetters) \cup Digits
                           \cup {"_", "-"})
           => /\ ~last'.result.success
              /\ last'.result.error = "Validation failed"
        /\ ~last'.result.success
           => /\ last'.result.error \in CreateErrors
              /\ last'.result.statusCode = 0
              /\ last'.result.data = NoData
              /\ store' = store]_vars

\* a Create of an ftp URL was refused, the store holding the document it
\* held before
C29_Witness ==
  /\ last.op = "create"
  /\ last.url = UrlFtp
  /\ last.result = Failure("Validation failed", 0)
  /\ store = <<Created(Body(UrlA, 1, CodeLower))>>

\* the code has fewer than 3 or more than 20 characters, or a character
\* that is not a letter, a digit, '_' or '-'
Malformed(code) ==
  \/ Len(code) < 3
  \/ Len(code) > 20
  \/ \E k \in DOMAIN code :
       code[k] \notin Range(UpperLetters) \cup Range(LowerLetters) \cup Digits
                        \cup {"_", "-"}

\* C30: a GetStats, Redirect or Delete of a malformed code returns 'Invalid
\* shortcode format' from its first step, before any store call, and the
\* store stays as it was; a request with a malformed code never waits for
\* the store.
C30_MalformedCodeRejected ==
  /\ [](\A r \in Reqs :
          (reqs[r].op \in {"stats", "redirect", "delete"} /\ Malformed(reqs[r].shortcode))
            => reqs[r].pc = "done")
  /\ [][(/\ last'.n # last.n
         /\ last'.op \in {"stats", "redirect", "delete"}
         /\ Malformed(last'.shortcode))
        => /\ ~last'.result.success
           /\ last'.result.error = "Invalid shortcode format"
           /\ last'.seen = NotSeen
           /\ last'.id = 0
           /\ \E r \in Reqs : reqs[r].op = "" /\ reqs'[r].pc = "done"
                                /\ reqs[r].pc # "done"
           /\ store' = store]_vars

\* a GetStats of a code of 21 characters was refused
C30_Witness ==
  /\ last.op = "stats"
  /\ last.shortcode = CodeLong
  /\ last.result.error = "Invalid shortcode format"
  /\ last.seen = NotSeen
  /\ store # <<>>

\* C31: a GetStats or Redirect whose code is, in lowercase, the code of a
\* stored document that is active and has not expired finds that document,
\* however the code is spelled, and a successful one answers from it.
C31_LookupIgnoresCase ==
  (LastLookup /\ last.seen.exists /\ last.seen.isActive /\ last.seen.live)
    => /\ last.id \in Ids(store)
       /\ store[last.id].shortcode = toLowerCase(last.shortcode)
       /\ last.result.error # "URL not found"
       /\ last.result.success
            => last.result.data.originalUrl = store[last.id].originalUrl

\* a GetStats that spelled the code in capitals has reported the click of
\* a Redirect that spelled it in lowercase
C31_Witness ==
  /\ last.op = "stats"
  /\ last.shortcode = CodeMixed
  /\ last.result.success
  /\ last.result.data.totalClicks = 1
  /\ last.id \in Ids(store)
  /\ store[last.id].shortcode = CodeLower

\* C32: a Delete whose code is, in lowercase, the code of a stored document
\* finds that document and deactivates it, as GetStats and Redirect would
\* find it: it does not answer 'URL not found', and after its success the
\* document is inactive.
C32_DeleteIgnoresCase ==
  (last.op = "delete" /\ last.seen.exists /\ ~last.seen.failed)
    => /\ last.result.error # "URL not found"
       /\ last.result.success
            => /\ last.id \in Ids(store)
               /\ store[last.id].shortcode = toLowerCase(last.shortcode)
               /\ store[last.id].isActive = FALSE

\* the documents stored under exactly this code
Under(st, shortcode) == {i \in Ids(st) : st[i].shortcode = shortcode}

\* C33: when a Delete on a well-formed code returns and none of its store
\* calls has failed, then either the store holds no document under that code
\* as given, the result is the failure 'URL not found' and the step leaves
\* the store unchanged, or the store holds such a document, active or not,
\* the result is a success and the document is inactive.
C33_DeleteByExistence ==
  [][(/\ last'.n # last.n
      /\ last'.op = "delete"
      /\ validateShortcode(last'.shortcode)
      /\ ~last'.seen.failed)
       => IF Under(store, last'.shortcode) = {}
          THEN /\ last'.result.success = FALSE
               /\ last'.result.error = "URL not found"
               /\ store' = store
          ELSE /\ last'.result.success
               /\ \A i \in Under(store, last'.shortcode) :
                    /\ i = last'.id
                    /\ store'[i].isActive = FALSE]_vars

\* a Delete of a document that was already inactive has returned success
C33_Witness ==
  /\ last.op = "delete"
  /\ last.result.success
  /\ last.seen.exists
  /\ ~last.seen.isActive
  /\ last.id \in Ids(store)
  /\ ~store[last.id].isActive

\* C34: no step changes clickCount or clickEvents of a document that is
\* inactive or whose expiresAt is not after the clock in the state the step
\* starts from.
C34_ClickOnlyWhileResolvable ==
  [][\A i \in Ids(store) :
       (~store[i].isActive \/ now >= store[i].expiresAt)
         => /\ store'[i].clickCount = store[i].clickCount
            /\ store'[i].clickEvents = store[i].clickEvents]_vars

\* C35: no step changes shortcode, originalUrl, createdAt or expiresAt of a
\* stored document.
C35_CreationFieldsFixed ==
  [][\A i \in Ids(store) :
       /\ store'[i].shortcode = store[i].shortcode
       /\ store'[i].originalUrl = store[i].originalUrl
       /\ store'[i].createdAt = store[i].createdAt
       /\ store'[i].expiresAt = store[i].expiresAt]_vars

\* a document has been clicked by a Redirect and then deactivated by a
\* Delete, and holds the code and the dates it was stored with
C35_Witness ==
  /\ last.op = "delete"
  /\ last.result.success
  /\ last.id \in Ids(store)
  /\ ~store[last.id].isActive
  /\ store[last.id].clickCount = 1
  /\ store[last.id].shortcode = CodeLower
  /\ store[last.id].expiresAt = store[last.id].createdAt + 60000

\* C36: no step of a GetStats changes the store; the document its lookup
\* returns holds the stored originalUrl, createdAt, expiresAt, clickCount and
\* clickEvents of that moment, and a successful GetStats reports that
\* clickCount, originalUrl, createdAt and expiresAt and, for each of those
\* click events in the stored order, its timestamp, referrer and
\* geoLocation.
C36_StatsReadOnly ==
  [][\A r \in Reqs :
       (reqs'[r] # reqs[r] /\ (reqs[r].op = "stats" \/ reqs'[r].op = "stats"))
         => /\ store' = store
            /\ served' = served
            /\ (reqs[r].pc = "find" /\ reqs'[r].pc = "found")
                 => LET urlDoc == reqs'[r].doc
                    IN /\ urlDoc.id \in Ids(store)
                       /\ urlDoc.clickCount = store[urlDoc.id].clickCount
                       /\ urlDoc.clickEvents = store[urlDoc.id].clickEvents
                       /\ urlDoc.originalUrl = store[urlDoc.id].originalUrl
                       /\ urlDoc.createdAt = store[urlDoc.id].createdAt
                       /\ urlDoc.expiresAt = store[urlDoc.id].expiresAt
            /\ (reqs[r].pc = "found" /\ last'.n # last.n /\ last'.result.success)
                 => LET urlDoc == reqs[r].doc
                        data == last'.result.data
                    IN /\ data.totalClicks = urlDoc.clickCount
                       /\ data.originalUrl = urlDoc.originalUrl
                       /\ data.createdAt = urlDoc.createdAt
                       /\ data.expiry = urlDoc.expiresAt
                       /\ Len(data.clickEvents) = Len(urlDoc.clickEvents)
                       /\ \A k \in DOMAIN urlDoc.clickEvents :
                            /\ data.clickEvents[k].timestamp = urlDoc.clickEvents[k].timestamp
                            /\ data.clickEvents[k].referrer = urlDoc.clickEvents[k].referrer
                            /\ data.clickEvents[k].geoLocation
                                 = urlDoc.clickEvents[k].geoLocation]_vars

\* a GetStats has reported the one click stored by an earlier Redirect, and
\* the document holds that click as before
C36_Witness ==
  /\ last.op = "stats"
  /\ last.result.success
  /\ last.id \in Ids(store)
  /\ store[last.id].clickCount = 1
  /\ Len(store[last.id].clickEvents) = 1
  /\ Len(last.result.data.clickEvents) = 1
  /\ last.result.data.clickEvents[1].referrer = store[last.id].clickEvents[1].referrer
  /\ last.result.data.expiry = store[last.id].expiresAt

\* C37: after a successful Create the shortLink of the result ends with the
\* code of the stored document, which is the custom or generated code in
\* lowercase.  When a Redirect on a document that no click was stored in
\* returns, none of its store calls having failed, its lookup having met the
\* document active and the document unexpired at the return, it returns
\* success; a success of such a Redirect carries the sanitized url given to
\* the Create and leaves clickCount 1.
C37_CreateRedirectRoundTrip ==
  /\ [](last.op = "create" /\ last.result.success
          => /\ last.id \in Ids(store)
             /\ last.result.data.shortLink = store[last.id].shortcode
             /\ last.result.data.shortLink = toLowerCase(origin[last.id].shortcode))
  /\ [][(/\ last'.n # last.n
          /\ last'.op = "redirect"
          /\ last'.id \in Ids(store)
          /\ served[last'.id] = 0
          /\ ~last'.seen.failed)
           => /\ (last'.seen.isActive /\ now' < store'[last'.id].expiresAt)
                   => last'.result.success
              /\ last'.result.success
                   => /\ last'.result.data.originalUrl
                           = sanitizeUrl(origin[last'.id].url)
                      /\ store'[last'.id].clickCount = 1]_vars

\* a Create with the custom code 'AbC' and a url that sanitizeUrl changes
\* has stored a document, and a Redirect on 'abc' has returned the sanitized
\* url and left clickCount 1
C37_Witness ==
  /\ load = RoundTripLoad
  /\ last.op = "redirect"
  /\ last.result.success
  /\ last.id \in Ids(store)
  /\ origin[last.id].shortcode = CodeMixed
  /\ origin[last.id].url = UrlB
  /\ last.result.data.originalUrl = sanitizeUrl(UrlB)
  /\ last.result.data.originalUrl # UrlB
  /\ store[last.id].clickCount = 1

\* C38: when a sweep that ran with no other request in progress has
\* returned its count and the clock is the one it began with, every document
\* that is active has its expiresAt after the clock.
C38_SweepCoversLookup ==
  (/\ last.op = "sweep"
   /\ last.result.success
   /\ last.began.alone
   /\ last.began.date = now)
    => \A i \in Ids(store) : store[i].isActive => now < store[i].expiresAt

====
